---- MODULE Spec2Model ----
(***************************************************************************)
(* data_harvest_reader.DataReader: source classification, the thread-pool  *)
(* loader with its fan-in and key normalisation, the dedup pass, the       *)
(* filter pass and apply_filters.                                          *)
(*                                                                         *)
(* Strings whose characters the code inspects (paths, stems, keys) are     *)
(* sequences of one-character strings.                                     *)
(***************************************************************************)
EXTENDS Integers, Sequences, FiniteSets, TLC

VARIABLES
    pc,                     \* position of the read_data call
    source,                 \* argument `source` of read_data
    join_similar,           \* argument `join_similar` of read_data
    files,                  \* list handed to _read_files_parallel
    futures,                \* one future per submitted task
    doneOrder,              \* order in which the worker threads completed
    next,                   \* position of the `for ... in results` loop
    dataframes,             \* local dict of _read_files_parallel
    data,                   \* local `data` of read_data
    duplicated_subset_dict, \* argument of read_data
    filter_subset,          \* argument of read_data
    condsBuilt,             \* conditions built by apply_filters so far
    err,                    \* exception that escaped read_data
    af_df,                  \* argument `df` of a direct apply_filters call
    af_filters,             \* argument `filters` of a direct apply_filters call
    af_ret                  \* outcome of the direct apply_filters call

vars == <<pc, source, join_similar, files, futures, doneOrder, next, dataframes,
          data, duplicated_subset_dict, filter_subset, condsBuilt, err,
          af_df, af_filters, af_ret>>

\* ---------------------------------------------------------------- bounds
MaxFiles == 2
MaxRules == 2

\* ------------------------------------------------------------ characters
Digit == {"0", "1", "2", "3", "4", "5", "6", "7", "8", "9"}

IsDigit(s, i) == i >= 1 /\ i <= Len(s) /\ s[i] \in Digit

IsChar(s, i, c) == i >= 1 /\ i <= Len(s) /\ s[i] = c

\* s[i..] (1-based), the Python slice s[i-1:]
Tail_(s, i) == SubSeq(s, i, Len(s))

\* str.rfind: the largest 1-based index of c in s, 0 when absent
RFind(s, c) ==
    IF \E i \in 1..Len(s) : s[i] = c
    THEN CHOOSE i \in 1..Len(s) : s[i] = c /\ \A j \in (i+1)..Len(s) : s[j] # c
    ELSE 0

\* os.path.basename
Basename(p) == Tail_(p, RFind(p, "/") + 1)

\* os.path.splitext: <<root, ext>>; the dot must follow the last separator and
\* be preceded, inside the last component, by a character that is not a dot
SplitExt(p) ==
    LET sepIndex == RFind(p, "/")
        dotIndex == RFind(p, ".")
    IN  IF dotIndex > sepIndex /\ \E k \in (sepIndex+1)..(dotIndex-1) : p[k] # "."
        THEN <<SubSeq(p, 1, dotIndex - 1), Tail_(p, dotIndex)>>
        ELSE <<p, <<>> >>

\* ------------------------------------------------- suffix-stripping regex
\* number of consecutive digits of s starting at index i
RECURSIVE DigitRun(_, _)
DigitRun(s, i) == IF IsDigit(s, i) THEN 1 + DigitRun(s, i + 1) ELSE 0

\* _(\d+) at index i: length of the greedy match, 0 when it fails
Alt1Len(s, i) ==
    IF IsChar(s, i, "_") /\ IsDigit(s, i + 1) THEN 1 + DigitRun(s, i + 1) ELSE 0

\* _(\d{4}-\d{2}-\d{2} \d{2}:\d{2}:\d{2}) at index i
Alt2Len(s, i) ==
    IF /\ IsChar(s, i, "_")
       /\ \A k \in {1, 2, 3, 4, 6, 7, 9, 10, 12, 13, 15, 16, 18, 19} : IsDigit(s, i + k)
       /\ IsChar(s, i + 5, "-") /\ IsChar(s, i + 8, "-")
       /\ IsChar(s, i + 11, " ")
       /\ IsChar(s, i + 14, ":") /\ IsChar(s, i + 17, ":")
    THEN 20 ELSE 0

\* _(\d{14}) at index i
Alt3Len(s, i) ==
    IF IsChar(s, i, "_") /\ \A k \in 1..14 : IsDigit(s, i + k) THEN 15 ELSE 0

\* the alternation a|b|c at index i: the first alternative that matches wins
MatchLen(s, i) ==
    IF Alt1Len(s, i) > 0 THEN Alt1Len(s, i)
    ELSE IF Alt2Len(s, i) > 0 THEN Alt2Len(s, i)
    ELSE Alt3Len(s, i)

\* re.sub(pattern, '', s) scanning from index i
RECURSIVE ReSub(_, _)
ReSub(s, i) ==
    IF i > Len(s) THEN <<>>
    ELSE IF MatchLen(s, i) > 0 THEN ReSub(s, i + MatchLen(s, i))
    ELSE <<s[i]>> \o ReSub(s, i + 1)

\* base name of a file as the fan-in loop derives it
BaseName(file_name, join) ==
    LET stem == SplitExt(Basename(file_name))[1]
    IN  IF join THEN ReSub(stem, 1) ELSE stem

DfPrefix == <<"d", "f", "_">>

\* f'df_{base_name}'
Key(base_name) == DfPrefix \o base_name

\* ------------------------------------------------------- tables, errors
\* a polars DataFrame: its column names and its rows in order
Table(cols, rows) == [cols |-> cols, rows |-> rows]

NoTable == Table({}, <<>>)

\* an exception: its class, the table name its message carries (<<>> when it
\* carries none) and what raised it
Error(kind, table, detail) == [kind |-> kind, table |-> table, detail |-> detail]

NoErr == Error("none", <<>>, "none")

\* a dict: a function from keys to values
EmptyDict == [k \in {} |-> NoTable]

DictPut(d, key, value) ==
    [k \in DOMAIN d \cup {key} |-> IF k = key THEN value ELSE d[k]]

Range(s) == {s[i] : i \in DOMAIN s}

\* -------------------------------------------- the files a source may hold
R(id, age) == [id |-> id, age |-> age]

\* entries a directory or an archive may hold: name, whether the decoder of
\* its format succeeds on its content, and the table it decodes to
Catalogue == <<
    [name |-> <<"s", "a", "l", "e", "s", "_", "2", "0", "2", "3", "-", "0", "1", "-", "0", "1", " ", "0", "0", ":", "0", "0", ":", "0", "0", ".", "c", "s", "v">>,
     decodes |-> TRUE, table |-> Table({"id", "age"}, <<R(1, 10), R(2, 18)>>)],
    [name |-> <<"s", "a", "l", "e", "s", "_", "2", "0", "2", "3", "-", "0", "2", "-", "0", "1", " ", "0", "0", ":", "0", "0", ":", "0", "0", ".", "c", "s", "v">>,
     decodes |-> TRUE, table |-> Table({"id", "age"}, <<R(1, 64)>>)],
    [name |-> <<"s", "a", "l", "e", "s", "_", "1", ".", "c", "s", "v">>,
     decodes |-> TRUE, table |-> Table({"id", "age"}, <<R(1, 65), R(1, 70)>>)],
    [name |-> <<"s", "a", "l", "e", "s", "_", "2", ".", "c", "s", "v">>,
     decodes |-> TRUE, table |-> Table({"id", "age"}, <<R(2, 70)>>)],
    [name |-> <<"s", "a", "l", "e", "s", "_", "1", ".", "j", "s", "o", "n">>,
     decodes |-> TRUE, table |-> Table({"id"}, <<[id |-> 5]>>)],
    [name |-> <<"n", "o", "t", "e", "s", ".", "t", "x", "t">>,
     decodes |-> TRUE, table |-> Table({"id"}, <<[id |-> 6]>>)],
    [name |-> <<"b", "a", "d", ".", "c", "s", "v">>,
     decodes |-> FALSE, table |-> NoTable] >>

Entries == DOMAIN Catalogue

\* lists of at most n entries, in every order
RECURSIVE EntryLists(_)
EntryLists(n) ==
    IF n = 0 THEN {<<>>}
    ELSE EntryLists(n - 1) \cup
         {Append(l, e) : l \in {m \in EntryLists(n - 1) : Len(m) = n - 1},
                         e \in Entries}

Distinct(l) == \A i, j \in DOMAIN l : i # j => l[i] # l[j]

FileLists == {l \in EntryLists(MaxFiles) : Distinct(l)}

DirPath == <<"d">>

\* what `source` may be: its Python type and what os.path says of it
Sources == {
    [type |-> "str",   isdir |-> TRUE,  isfile |-> FALSE],
    [type |-> "str",   isdir |-> FALSE, isfile |-> TRUE],
    [type |-> "str",   isdir |-> FALSE, isfile |-> FALSE],
    [type |-> "bytes", isdir |-> FALSE, isfile |-> FALSE],
    [type |-> "other", isdir |-> FALSE, isfile |-> FALSE] }

\* ------------------------------------------------------------ the loader
\* self.data_formats
DataFormats == { <<".", "c", "s", "v">>, <<".", "j", "s", "o", "n">>, <<".", "p", "a", "r", "q", "u", "e", "t">>, <<".", "x", "l", "s", "x">> }

\* the file handles _read_from_directory builds: os.path.join(directory, f)
DirectoryFiles(listing) ==
    [i \in DOMAIN listing |->
        [name |-> DirPath \o <<"/">> \o Catalogue[listing[i]].name, entry |-> listing[i]]]

\* the file handles _read_from_zip builds: zip_ref.open(name), named by entry
ZipFiles(namelist) ==
    [i \in DOMAIN namelist |->
        [name |-> Catalogue[namelist[i]].name, entry |-> namelist[i]]]

\* what a task returns or raises: err is NoErr when it returned the pair
\* (file_name, df); isNone tells whether df is None
Returned(file_name, df) ==
    [err |-> NoErr, file_name |-> file_name, df |-> df, isNone |-> FALSE]

Raised(e) == [err |-> e, file_name |-> <<>>, df |-> NoTable, isNone |-> TRUE]

\* read_func(file, **kwargs): the decoder of the file's format on its content
Decode(file) ==
    IF Catalogue[file.entry].decodes
    THEN Returned(file.name, Catalogue[file.entry].table)
    ELSE Raised(Error("DecodeError", <<>>, "decoder"))

\* _read_file with a handler that logs the exception and returns
\* (file_name, None) instead of re-raising
ReadFileSwallow(file) ==
    IF SplitExt(file.name)[2] \notin DataFormats \/ ~Catalogue[file.entry].decodes
    THEN [err |-> NoErr, file_name |-> file.name, df |-> NoTable, isNone |-> TRUE]
    ELSE Decode(file)

\* DataReader._read_file
ReadFile(file) ==
    LET ext == SplitExt(file.name)[2]
    IN  IF ext \notin DataFormats
        THEN Raised(Error("UnsupportedFormatError", <<>>, "extension"))
        ELSE Decode(file)

\* pl.concat([a, b]): vertical concatenation needs equal schemas
Concat(a, b) ==
    IF a.cols = b.cols
    THEN [err |-> NoErr, df |-> Table(a.cols, a.rows \o b.rows)]
    ELSE [err |-> Error("SchemaError", <<>>, "concat"), df |-> NoTable]

Pending == [state |-> "pending", res |-> Raised(NoErr)]

AllDone == \A i \in DOMAIN futures : futures[i].state = "done"

\* results consumed as the tasks complete (as_completed) instead
CompletionOrder == doneOrder

\* the order in which `for file_name, df in results` receives the results:
\* Executor.map yields them in submission order
ResultOrder == [i \in DOMAIN files |-> i]

\* an insertion that rebinds the dict to a fresh one holding the new entry
InsertFresh(dfs, key, df, join) ==
    [err |-> NoErr, dict |-> DictPut(EmptyDict, key, df)]

\* an insertion that never concatenates
InsertAlwaysReplace(dfs, key, df, join) ==
    [err |-> NoErr, dict |-> DictPut(dfs, key, df)]

\* the insertion policy of the fan-in loop: the new dict, or the exception
\* pl.concat raised
Insert(dfs, key, df, join) ==
    IF key \in DOMAIN dfs /\ join
    THEN LET c == Concat(dfs[key], df)
         IN  [err |-> c.err,
              dict |-> IF c.err = NoErr THEN DictPut(dfs, key, c.df) ELSE dfs]
    ELSE [err |-> NoErr, dict |-> DictPut(dfs, key, df)]

\* a classification that does not ask whether the path exists
SourceModeNoExistenceCheck(src) ==
    IF src.type = "str" /\ src.isdir THEN "directory"
    ELSE IF src.type \in {"str", "bytes"} THEN "zip"
    ELSE "unsupported"

\* how read_data classifies its source
SourceMode(src) ==
    IF src.type = "str" /\ src.isdir THEN "directory"
    ELSE IF src.type \in {"str", "bytes"} /\ (src.isfile \/ src.type = "bytes")
    THEN "zip"
    ELSE "unsupported"

\* the exception read_data raises for a source it does not support
UnsupportedSource == Error("ValueError", <<>>, "Unsupported source type")

\* --------------------------------------------------------- apply_filters
\* self.__available_operations
AvailableOperations == {"notin", "in", "==", ">", ">=", "<", "<=", "!="}

\* `values` of a rule: a scalar is carried as a one-item list with isList FALSE
Scalar(v) == [isList |-> FALSE, items |-> <<v>>]

List(items) == [isList |-> TRUE, items |-> items]

\* a filter rule; operator "absent" is a rule without the key 'operator'
Rule(column, operation, values, operator) ==
    [column |-> column, operation |-> operation, values |-> values,
     operator |-> operator]

\* the condition of one row: x is the row's value in the column. The six
\* comparisons are reached with scalar values only (apply_filters rejects list
\* values for them first); in/notin wrap a scalar into a one-item list
RowCondition(operation, x, values) ==
    CASE operation = "=="    -> x = values.items[1]
      [] operation = ">"     -> x > values.items[1]
      [] operation = ">="    -> x >= values.items[1]
      [] operation = "<"     -> x < values.items[1]
      [] operation = "<="    -> x <= values.items[1]
      [] operation = "!="    -> x # values.items[1]
      [] operation = "in"    -> x \in Range(values.items)
      [] operation = "notin" -> x \notin Range(values.items)

\* DataReader._build_filter_condition: the boolean Series, or what it raises
BuildFilterCondition(df, column, operation, values) ==
    IF operation \notin {"==", ">", ">=", "<", "<=", "!=", "in", "notin"}
    THEN [err |-> "Unsupported operation", mask |-> <<>>]
    ELSE IF column \notin df.cols
    THEN [err |-> "ColumnNotFoundError", mask |-> <<>>]
    ELSE [err |-> "none",
          mask |-> [i \in DOMAIN df.rows |->
                        RowCondition(operation, df.rows[i][column], values)]]

\* a validation that forgets the check of the operation
ValidateRuleListOnly(rule) ==
    IF rule.operation \notin {"notin", "in"} /\ rule.values.isList
    THEN "For list values, use 'notin' or 'in'"
    ELSE "none"

\* the two validations of a rule: "none" when it passes
ValidateRule(rule) ==
    IF rule.operation \notin AvailableOperations THEN "operation is not allowed"
    ELSE IF rule.operation \notin {"notin", "in"} /\ rule.values.isList
    THEN "For list values, use 'notin' or 'in'"
    ELSE "none"

\* filter_rule.get('operator', 'and')
OperatorOf(rule) == IF rule.operator = "absent" THEN "and" ELSE rule.operator

\* a fold that conjoins whatever the operator says
CombineAndOnly(query, condition, operator) ==
    IF operator \in {"and", "or"} THEN [i \in DOMAIN query |-> query[i] /\ condition[i]]
    ELSE query

\* query & condition, query | condition; any other operator leaves query alone
Combine(query, condition, operator) ==
    IF operator = "and" THEN [i \in DOMAIN query |-> query[i] /\ condition[i]]
    ELSE IF operator = "or" THEN [i \in DOMAIN query |-> query[i] \/ condition[i]]
    ELSE query

\* pl.lit(True), broadcast over the rows of df
LitTrue(df) == [i \in DOMAIN df.rows |-> TRUE]

\* the loop over the rules from rule i on: the final query, the number of
\* conditions built, and what was raised ("none" when the loop completed)
RECURSIVE FilterLoop(_, _, _, _, _)
FilterLoop(df, filters, i, query, built) ==
    IF i > Len(filters) THEN [err |-> "none", query |-> query, built |-> built]
    ELSE IF ValidateRule(filters[i]) # "none"
    THEN [err |-> ValidateRule(filters[i]), query |-> query, built |-> built]
    ELSE LET rule == filters[i]
             c == BuildFilterCondition(df, rule.column, rule.operation, rule.values)
         IN  IF c.err # "none"
             THEN [err |-> c.err, query |-> query, built |-> built]
             ELSE FilterLoop(df, filters, i + 1,
                             Combine(query, c.mask, OperatorOf(rule)), built + 1)

\* the rows of s at the indices where mask holds, in order
RECURSIVE Keep(_, _, _)
Keep(s, mask, i) ==
    IF i > Len(s) THEN <<>>
    ELSE (IF mask[i] THEN <<s[i]>> ELSE <<>>) \o Keep(s, mask, i + 1)

\* df.filter(query)
Filter(df, query) == Table(df.cols, Keep(df.rows, query, 1))

\* the except clause of apply_filters: whatever was raised leaves as a
\* FilterConfigurationError whose message names df_name
WrapFilterError(df_name, detail) == Error("FilterConfigurationError", df_name, detail)

\* DataReader.apply_filters: the filtered table or the exception, and the
\* number of conditions built on the way
ApplyFilters(df, filters, df_name) ==
    LET r == FilterLoop(df, filters, 1, LitTrue(df), 0)
    IN  IF r.err # "none"
        THEN [err |-> WrapFilterError(df_name, r.err), df |-> NoTable, built |-> r.built]
        ELSE [err |-> NoErr, df |-> Filter(df, r.query), built |-> r.built]

\* ------------------------------------------------------------ dedup pass
\* the columns unique() compares: subset=v if v else None
SubsetCols(df, subset) == IF subset = <<>> THEN df.cols ELSE Range(subset)

SameOn(cols, a, b) == \A c \in cols : a[c] = b[c]

\* the first occurrence of every combination, in the order of df
RECURSIVE KeepFirst(_, _, _)
KeepFirst(rows, cols, i) ==
    IF i > Len(rows) THEN <<>>
    ELSE (IF \E j \in 1..(i - 1) : SameOn(cols, rows[j], rows[i])
          THEN <<>> ELSE <<rows[i]>>) \o KeepFirst(rows, cols, i + 1)

Permutations_(s) ==
    {[i \in DOMAIN s |-> s[f[i]]] :
        f \in {g \in [DOMAIN s -> DOMAIN s] : \A a, b \in DOMAIN s : a # b => g[a] # g[b]}}

\* df.unique(subset=..., keep='first'): maintain_order is left at its default,
\* so the kept rows come in an order polars does not fix
UniqueOutcomes(df, subset) ==
    {Table(df.cols, rows) :
        rows \in Permutations_(KeepFirst(df.rows, SubsetCols(df, subset), 1))}

\* what the value expression of the dedup comprehension raises for one item
DedupError(d, item) ==
    IF Key(item.k) \notin DOMAIN d THEN Error("KeyError", Key(item.k), "data[key]")
    ELSE IF ~(Range(item.v) \subseteq d[Key(item.k)].cols)
    THEN Error("ColumnNotFoundError", <<>>, "unique")
    ELSE NoErr

\* what the value expression of the filter comprehension raises for one item
FilterError(d, item) ==
    IF Key(item.k) \notin DOMAIN d THEN Error("KeyError", Key(item.k), "data[key]")
    ELSE ApplyFilters(d[Key(item.k)], item.v, Key(item.k)).err

\* a comprehension evaluates its items in order: index of the first item
\* whose value expression raises, 0 when none does
FirstFailing(errs) ==
    IF \E i \in DOMAIN errs : errs[i] # NoErr
    THEN CHOOSE i \in DOMAIN errs :
            errs[i] # NoErr /\ \A j \in 1..(i - 1) : errs[j] = NoErr
    ELSE 0

DedupErrors(d, items) == [i \in DOMAIN items |-> DedupError(d, items[i])]

FilterErrors(d, items) == [i \in DOMAIN items |-> FilterError(d, items[i])]

ItemKeys(items) == {Key(items[i].k) : i \in DOMAIN items}

ItemOf(items, key) == items[CHOOSE i \in DOMAIN items : Key(items[i].k) = key]

\* the dicts the dedup comprehension may build when no item raises
DedupOutcomes(d, items) ==
    LET outs == [key \in ItemKeys(items) |->
                    UniqueOutcomes(d[key], ItemOf(items, key).v)]
    IN  {f \in [ItemKeys(items) -> UNION {outs[key] : key \in ItemKeys(items)}] :
            \A key \in ItemKeys(items) : f[key] \in outs[key]}

\* the dict the filter comprehension builds when no item raises
FilterOutcome(d, items) ==
    [key \in ItemKeys(items) |->
        ApplyFilters(d[key], ItemOf(items, key).v, key).df]

\* conditions built by the filter comprehension: every item up to and
\* including the first that raises inside apply_filters
RECURSIVE BuiltUpTo(_, _, _)
BuiltUpTo(d, items, n) ==
    IF n = 0 THEN 0
    ELSE BuiltUpTo(d, items, n - 1) +
         (IF Key(items[n].k) \in DOMAIN d
          THEN ApplyFilters(d[Key(items[n].k)], items[n].v, Key(items[n].k)).built
          ELSE 0)

\* ------------------------------------------------- arguments of read_data
Item(k, v) == [k |-> k, v |-> v]

KSales == <<"s", "a", "l", "e", "s">>
KSales1 == <<"s", "a", "l", "e", "s", "_", "1">>
KMissing == <<"z", "z", "z">>

\* values of duplicated_subset_dict, as item lists; <<>> is None or {}
DedupDicts == {
    <<>>,
    <<Item(KSales, <<>>)>>,
    <<Item(KSales, <<"id">>)>>,
    <<Item(KSales1, <<"id">>)>>,
    <<Item(KSales1, <<"nope">>)>>,
    <<Item(KMissing, <<>>)>> }

AgeAtLeast18 == Rule("age", ">=", Scalar(18), "and")
AgeBelow65 == Rule("age", "<", Scalar(65), "and")
AgeLike == Rule("age", "like", Scalar(18), "and")

\* values of filter_subset, as item lists; <<>> is None or {}
FilterSubsets == {
    <<>>,
    <<Item(KSales, <<AgeAtLeast18>>)>>,
    <<Item(KSales1, <<AgeAtLeast18, AgeBelow65>>)>>,
    <<Item(KSales, <<AgeAtLeast18, AgeLike>>)>>,
    <<Item(KSales1, <<Rule("age", "==", List(<<65, 70>>), "and")>>)>>,
    <<Item(KSales1, <<Rule("nope", "==", Scalar(1), "or")>>)>>,
    <<Item(KMissing, <<AgeAtLeast18>>)>> }

\* ------------------------------------------------------------------ state
Init ==
    /\ pc = "idle"
    /\ source = [type |-> "other", isdir |-> FALSE, isfile |-> FALSE]
    /\ join_similar = FALSE
    /\ files = <<>>
    /\ futures = <<>>
    /\ doneOrder = <<>>
    /\ next = 1
    /\ dataframes = EmptyDict
    /\ data = EmptyDict
    /\ duplicated_subset_dict = <<>>
    /\ filter_subset = <<>>
    /\ condsBuilt = 0
    /\ err = NoErr
    /\ af_df = NoTable
    /\ af_filters = <<>>
    /\ af_ret = [pc |-> "unused", err |-> NoErr, df |-> NoTable, built |-> 0]

afVars == <<af_df, af_filters, af_ret>>

passVars == <<duplicated_subset_dict, filter_subset, condsBuilt>>

\* read_data up to the return of executor.map: classify the source, enumerate
\* its files and submit one task per file
ReadData(src, join, listing) ==
    /\ pc = "idle"
    /\ source' = src
    /\ join_similar' = join
    /\ IF SourceMode(src) = "unsupported"
       THEN /\ listing = <<>>
            /\ pc' = "raised"
            /\ err' = UnsupportedSource
            /\ UNCHANGED <<files, futures>>
       ELSE /\ files' = IF SourceMode(src) = "directory"
                        THEN DirectoryFiles(listing) ELSE ZipFiles(listing)
            /\ futures' = [i \in DOMAIN listing |-> Pending]
            /\ pc' = "loading"
            /\ err' = NoErr
    /\ UNCHANGED <<doneOrder, next, dataframes, data, passVars, afVars>>

\* a worker thread takes up task i
StartTask(i) ==
    /\ pc = "loading"
    /\ futures[i].state = "pending"
    /\ futures' = [futures EXCEPT ![i].state = "running"]
    /\ UNCHANGED <<pc, source, join_similar, files, doneOrder, next, dataframes,
                   data, passVars, err, afVars>>

\* task i ends: its future holds what _read_file returned or raised
FinishTask(i) ==
    /\ pc = "loading"
    /\ futures[i].state = "running"
    /\ futures' = [futures EXCEPT ![i] = [state |-> "done", res |-> ReadFile(files[i])]]
    /\ doneOrder' = Append(doneOrder, i)
    /\ UNCHANGED <<pc, source, join_similar, files, next, dataframes,
                   data, passVars, err, afVars>>

\* leaving the `with ThreadPoolExecutor()` block waits for every task
JoinPool ==
    /\ pc = "loading"
    /\ AllDone
    /\ pc' = "fanin"
    /\ next' = 1
    /\ dataframes' = EmptyDict
    /\ UNCHANGED <<source, join_similar, files, futures, doneOrder,
                   data, passVars, err, afVars>>

\* one iteration of `for file_name, df in results`
ConsumeResult ==
    /\ pc = "fanin"
    /\ next <= Len(files)
    /\ LET r   == futures[ResultOrder[next]].res
           key == Key(BaseName(r.file_name, join_similar))
           ins == Insert(dataframes, key, r.df, join_similar)
       IN  IF r.err # NoErr
           THEN pc' = "raised" /\ err' = r.err /\ UNCHANGED <<next, dataframes>>
           ELSE IF r.isNone
           THEN next' = next + 1 /\ UNCHANGED <<pc, err, dataframes>>
           ELSE IF ins.err # NoErr
           THEN pc' = "raised" /\ err' = ins.err /\ UNCHANGED <<next, dataframes>>
           ELSE /\ dataframes' = ins.dict
                /\ next' = next + 1
                /\ UNCHANGED <<pc, err>>
    /\ UNCHANGED <<source, join_similar, files, futures, doneOrder,
                   data, passVars, afVars>>

\* _read_files_parallel returns its dict to read_data
LoaderReturn ==
    /\ pc = "fanin"
    /\ next > Len(files)
    /\ data' = dataframes
    /\ pc' = "loaded"
    /\ UNCHANGED <<source, join_similar, files, futures, doneOrder, next,
                   dataframes, passVars, err, afVars>>

\* the dedup pass of read_data
DedupPass(dd) ==
    /\ pc = "loaded"
    /\ duplicated_subset_dict' = dd
    /\ LET f == FirstFailing(DedupErrors(data, dd))
       IN  IF dd = <<>>
           THEN pc' = "deduped" /\ UNCHANGED <<data, err>>
           ELSE IF f # 0
           THEN pc' = "raised" /\ err' = DedupError(data, dd[f]) /\ UNCHANGED data
           ELSE /\ data' \in DedupOutcomes(data, dd)
                /\ pc' = "deduped"
                /\ UNCHANGED err
    /\ UNCHANGED <<source, join_similar, files, futures, doneOrder, next,
                   dataframes, filter_subset, condsBuilt, afVars>>

\* the filter pass of read_data and its return
FilterPass(fs) ==
    /\ pc = "deduped"
    /\ filter_subset' = fs
    /\ LET f == FirstFailing(FilterErrors(data, fs))
       IN  IF fs = <<>>
           THEN pc' = "returned" /\ UNCHANGED <<data, err, condsBuilt>>
           ELSE IF f # 0
           THEN /\ pc' = "raised"
                /\ err' = FilterError(data, fs[f])
                /\ condsBuilt' = BuiltUpTo(data, fs, f)
                /\ UNCHANGED data
           ELSE /\ data' = FilterOutcome(data, fs)
                /\ condsBuilt' = BuiltUpTo(data, fs, Len(fs))
                /\ pc' = "returned"
                /\ UNCHANGED err
    /\ UNCHANGED <<source, join_similar, files, futures, doneOrder, next,
                   dataframes, duplicated_subset_dict, afVars>>

Next ==
    \/ \E src \in Sources, join \in BOOLEAN, listing \in FileLists :
           ReadData(src, join, listing)
    \/ \E i \in DOMAIN futures : StartTask(i)
    \/ \E i \in DOMAIN futures : FinishTask(i)
    \/ JoinPool
    \/ ConsumeResult
    \/ LoaderReturn
    \/ \E dd \in DedupDicts : DedupPass(dd)
    \/ \E fs \in FilterSubsets : FilterPass(fs)

Spec == Init /\ [][Next]_vars

\* ------------------------------------------- apply_filters called directly
AgesTable ==
    Table({"age"}, <<[age |-> 10], [age |-> 18], [age |-> 64], [age |-> 65], [age |-> 70]>>)

FilterTables == {AgesTable, Catalogue[1].table}

\* the rules a caller may pass
RuleUniverse ==
    {Rule("age", op, v, o) :
        op \in AvailableOperations \cup {"like"},
        v \in {Scalar(18), List(<<18, 64>>)},
        o \in {"and", "or"}}
    \cup {AgeBelow65,
          Rule("age", ">=", Scalar(18), "absent"),
          Rule("nope", "==", Scalar(18), "and"),
          Rule("age", "==", Scalar(18), "xor")}

RECURSIVE RuleLists(_)
RuleLists(n) ==
    IF n = 0 THEN {<<>>}
    ELSE RuleLists(n - 1) \cup
         {Append(l, r) : l \in {m \in RuleLists(n - 1) : Len(m) = n - 1},
                         r \in RuleUniverse}

AfName == <<"d", "f", "_", "t">>

InitFilter ==
    /\ pc = "idle"
    /\ source = [type |-> "other", isdir |-> FALSE, isfile |-> FALSE]
    /\ join_similar = FALSE
    /\ files = <<>>
    /\ futures = <<>>
    /\ doneOrder = <<>>
    /\ next = 1
    /\ dataframes = EmptyDict
    /\ data = EmptyDict
    /\ duplicated_subset_dict = <<>>
    /\ filter_subset = <<>>
    /\ condsBuilt = 0
    /\ err = NoErr
    /\ af_df \in FilterTables
    /\ af_filters \in RuleLists(MaxRules)
    /\ af_ret = [pc |-> "called", err |-> NoErr, df |-> NoTable, built |-> 0]

\* one call apply_filters(af_df, af_filters, 'df_t')
ApplyFiltersCall ==
    /\ af_ret.pc = "called"
    /\ LET r == ApplyFilters(af_df, af_filters, AfName)
       IN  af_ret' = [pc |-> IF r.err = NoErr THEN "returned" ELSE "raised",
                      err |-> r.err, df |-> r.df, built |-> r.built]
    /\ UNCHANGED <<pc, source, join_similar, files, futures, doneOrder, next,
                   dataframes, data, passVars, err, af_df, af_filters>>

NextFilter == ApplyFiltersCall

SpecFilter == InitFilter /\ [][NextFilter]_vars

\* ===================================================== checked properties
KeyOfFile(i) == Key(BaseName(files[i].name, join_similar))

TableOfFile(i) == Catalogue[files[i].entry].table

\* a file _read_file fails on: no decoder for its extension, or its decoder raises
Fails(file) ==
    \/ SplitExt(file.name)[2] \notin DataFormats
    \/ ~Catalogue[file.entry].decodes

RECURSIVE SumTo(_, _)
SumTo(f, n) == IF n = 0 THEN 0 ELSE f[n] + SumTo(f, n - 1)

RECURSIVE SumRows(_, _)
SumRows(d, keys) ==
    IF keys = {} THEN 0
    ELSE LET key == CHOOSE x \in keys : TRUE
         IN  Len(d[key].rows) + SumRows(d, keys \ {key})

\* C1: a directory holding exactly the two dated sales files loads, in merge
\* mode, into the single key df_sales whose row count is the sum of both
\* files' row counts, and in non-merge mode into two distinct keys.
C1_DatedSalesFilesMerge ==
    (/\ pc = "loaded"
     /\ SourceMode(source) = "directory"
     /\ {files[i].entry : i \in DOMAIN files} = {1, 2}
     /\ Len(files) = 2)
    => IF join_similar
       THEN /\ DOMAIN data = {Key(KSales)}
            /\ Len(data[Key(KSales)].rows) =
                  Len(Catalogue[1].table.rows) + Len(Catalogue[2].table.rows)
       ELSE Cardinality(DOMAIN data) = 2

\* C2: after the dedup pass and after the filter pass the collection has the
\* keys the loader produced, and every table no entry of the pass names is
\* the loader's table.
C2_UnnamedTablesPassThrough ==
    (pc \in {"deduped", "returned"})
    => /\ DOMAIN data = DOMAIN dataframes
       /\ \A key \in DOMAIN dataframes :
            key \notin (ItemKeys(duplicated_subset_dict) \cup ItemKeys(filter_subset))
            => data[key] = dataframes[key]

EightOperations == {"==", "!=", ">", ">=", "<", "<=", "in", "notin"}

HasInvalidOperation(filters) ==
    \E i \in DOMAIN filters : filters[i].operation \notin EightOperations

FirstInvalid(filters) ==
    CHOOSE i \in DOMAIN filters :
        /\ filters[i].operation \notin EightOperations
        /\ \A j \in 1..(i - 1) : filters[j].operation \in EightOperations

\* C3 as stated: a rule list holding an unrecognized operation, at any
\* position, makes apply_filters raise FilterConfigurationError before the
\* condition of any rule has been built.
C3_RejectedBeforeAnyCondition ==
    (af_ret.pc # "called" /\ HasInvalidOperation(af_filters))
    => /\ af_ret.pc = "raised"
       /\ af_ret.err.kind = "FilterConfigurationError"
       /\ af_ret.built = 0

\* C3 amended: a rule list holding an unrecognized operation makes
\* apply_filters raise FilterConfigurationError and return no table; no
\* condition is built for the first invalid rule or any rule after it, and
\* when every rule before it had its condition built the call is rejected by
\* the validation of the operation. Conditions of the rules before it may
\* have been built.
C3_RejectedBeforeOwnCondition ==
    (af_ret.pc # "called" /\ HasInvalidOperation(af_filters))
    => /\ af_ret.pc = "raised"
       /\ af_ret.err.kind = "FilterConfigurationError"
       /\ af_ret.df = NoTable
       /\ af_ret.built < FirstInvalid(af_filters)
       /\ af_ret.built = FirstInvalid(af_filters) - 1
            => af_ret.err.detail = "operation is not allowed"

C3_Witness ==
    /\ af_ret.pc = "raised"
    /\ HasInvalidOperation(af_filters)
    /\ FirstInvalid(af_filters) = 2
    /\ af_ret.built = 1
    /\ af_ret.err.detail = "operation is not allowed"

\* neither an existing directory path, nor an existing file path, nor bytes
UnsupportedSourceValue(src) ==
    /\ ~(src.type = "str" /\ src.isdir)
    /\ ~(src.type = "str" /\ src.isfile)
    /\ src.type # "bytes"

\* C4 as stated: read_data with an unsupported source signals
\* UnsupportedSourceError before any file is enumerated or any task submitted.
C4_UnsupportedSourceError ==
    (pc # "idle" /\ UnsupportedSourceValue(source))
    => /\ pc = "raised"
       /\ err.kind = "UnsupportedSourceError"
       /\ files = <<>> /\ futures = <<>>

\* C4 amended: read_data with an unsupported source raises the built-in
\* ValueError ("Unsupported source type") before any file is enumerated or
\* any decode task is submitted.
C4_UnsupportedSourceValueError ==
    (pc # "idle" /\ UnsupportedSourceValue(source))
    => /\ pc = "raised"
       /\ err = Error("ValueError", <<>>, "Unsupported source type")
       /\ files = <<>> /\ futures = <<>> /\ doneOrder = <<>>
       /\ dataframes = EmptyDict /\ data = EmptyDict

C4_Witness ==
    /\ pc = "raised"
    /\ source = [type |-> "str", isdir |-> FALSE, isfile |-> FALSE]
    /\ err.kind = "ValueError"

FirstFailingFile ==
    CHOOSE i \in DOMAIN files :
        Fails(files[i]) /\ \A j \in 1..(i - 1) : ~Fails(files[j])

\* C5: when a file of the list fails in _read_file, read_data never gets a
\* collection from the loader and never returns one, whatever the order in
\* which the workers run; when it ends, it ends with an exception, which is
\* the exception of the first failing file of the list unless pl.concat
\* raised on a file before it.
C5_FailFast ==
    (pc # "idle" /\ \E i \in DOMAIN files : Fails(files[i]))
    => /\ pc \in {"loading", "fanin", "raised"}
       /\ data = EmptyDict
       /\ pc = "raised" =>
            \/ err = Error("SchemaError", <<>>, "concat")
            \/ err = IF SplitExt(files[FirstFailingFile].name)[2] \notin DataFormats
                     THEN Error("UnsupportedFormatError", <<>>, "extension")
                     ELSE Error("DecodeError", <<>>, "decoder")

C5_Witness ==
    /\ pc = "raised"
    /\ Len(files) = 2
    /\ ~Fails(files[1]) /\ Fails(files[2])
    /\ doneOrder = <<2, 1>>
    /\ dataframes # EmptyDict
    /\ data = EmptyDict
    /\ err.kind = "DecodeError"

\* what one rule says of one row
RowSatisfies(row, rule) ==
    LET x == row[rule.column]
        vs == Range(rule.values.items)
    IN  CASE rule.operation = "=="    -> \E v \in vs : x = v
          [] rule.operation = "!="    -> \E v \in vs : x # v
          [] rule.operation = ">"     -> \E v \in vs : v < x
          [] rule.operation = ">="    -> \E v \in vs : ~(x < v)
          [] rule.operation = "<"     -> \E v \in vs : ~(x >= v)
          [] rule.operation = "<="    -> \E v \in vs : ~(x > v)
          [] rule.operation = "in"    -> x \in vs
          [] rule.operation = "notin" -> ~(x \in vs)

\* the left-to-right fold of the first n rules on one row, from TRUE
RECURSIVE Selected(_, _, _)
Selected(row, filters, n) ==
    IF n = 0 THEN TRUE
    ELSE IF filters[n].operator = "or"
    THEN Selected(row, filters, n - 1) \/ RowSatisfies(row, filters[n])
    ELSE Selected(row, filters, n - 1) /\ RowSatisfies(row, filters[n])

\* rules apply_filters evaluates without raising, with a stated or absent operator
WellFormed(df, filters) ==
    \A i \in DOMAIN filters :
        /\ filters[i].operation \in EightOperations
        /\ filters[i].values.isList => filters[i].operation \in {"in", "notin"}
        /\ filters[i].column \in df.cols
        /\ filters[i].operator \in {"and", "or", "absent"}

\* C6: apply_filters keeps exactly the rows the left-to-right fold of the
\* rules selects, starting from all-true, each rule combined by its own
\* operator (absent = and); zero rules return the input table, and
\* [age >= 18, age < 65] on ages [10,18,64,65,70] returns [18,64].
C6_LeftToRightFold ==
    (af_ret.pc # "called" /\ WellFormed(af_df, af_filters))
    => /\ af_ret.pc = "returned"
       /\ af_ret.df.cols = af_df.cols
       /\ LET Sel(row) == Selected(row, af_filters, Len(af_filters))
          IN  af_ret.df.rows = SelectSeq(af_df.rows, Sel)
       /\ af_filters = <<>> => af_ret.df = af_df
       /\ (af_df = AgesTable /\ af_filters = <<AgeAtLeast18, AgeBelow65>>)
            => af_ret.df.rows = <<[age |-> 18], [age |-> 64]>>

C6_Witness ==
    /\ af_ret.pc = "returned"
    /\ af_df = AgesTable
    /\ af_filters = <<AgeAtLeast18, AgeBelow65>>
    /\ af_ret.df.rows = <<[age |-> 18], [age |-> 64]>>

AllDecode == \A i \in DOMAIN files : ~Fails(files[i])

DistinctKeys == \A i, j \in DOMAIN files : i # j => KeyOfFile(i) # KeyOfFile(j)

\* C7: when every file decodes and the files derive pairwise distinct keys,
\* the collection the loader returns has exactly one entry per file, holding
\* that file's table, whatever the order in which the workers ran.
C7_NoLostUpdates ==
    (pc = "loaded" /\ AllDecode /\ DistinctKeys)
    => /\ Cardinality(DOMAIN data) = Len(files)
       /\ \A i \in DOMAIN files :
            KeyOfFile(i) \in DOMAIN data /\ data[KeyOfFile(i)] = TableOfFile(i)

C7_Witness ==
    /\ pc = "loaded"
    /\ Len(files) = 2
    /\ DistinctKeys
    /\ doneOrder = <<2, 1>>
    /\ Cardinality(DOMAIN data) = 2

\* C8: whenever the filter pass of read_data fails, the call ends with a
\* FilterConfigurationError naming the table of the failing entry.
C8_FilterPassRaisesFilterConfigurationError ==
    (pc = "raised" /\ filter_subset # <<>>)
    => /\ err.kind = "FilterConfigurationError"
       /\ err.table \in ItemKeys(filter_subset)

\* the files consumed so far by the fan-in loop, in the order consumed
Consumed == SubSeq(ResultOrder, 1, next - 1)

ConsumedWithKey(key) == {i \in Range(Consumed) : KeyOfFile(i) = key}

\* C9: while and after the loader inserts, in merge mode every key holds the
\* rows of all consumed files that normalize to it (no row lost, none added)
\* and the rows of the collection total the rows of the consumed files; in
\* non-merge mode every key holds the table of the file consumed last among
\* those deriving it.
C9_InsertionPolicy ==
    (pc \in {"fanin", "loaded"})
    => /\ DOMAIN dataframes = {KeyOfFile(i) : i \in Range(Consumed)}
       /\ IF join_similar
          THEN /\ \A key \in DOMAIN dataframes :
                    /\ Len(dataframes[key].rows) =
                          SumTo([i \in DOMAIN files |->
                                    IF i \in ConsumedWithKey(key)
                                    THEN Len(TableOfFile(i).rows) ELSE 0], Len(files))
                    /\ Range(dataframes[key].rows) =
                          UNION {Range(TableOfFile(i).rows) : i \in ConsumedWithKey(key)}
               /\ SumRows(dataframes, DOMAIN dataframes) =
                     SumTo([i \in DOMAIN files |->
                               IF i \in Range(Consumed)
                               THEN Len(TableOfFile(i).rows) ELSE 0], Len(files))
          ELSE \A key \in DOMAIN dataframes :
                  \E p \in DOMAIN Consumed :
                      /\ KeyOfFile(Consumed[p]) = key
                      /\ \A q \in DOMAIN Consumed : q > p => KeyOfFile(Consumed[q]) # key
                      /\ dataframes[key] = TableOfFile(Consumed[p])

C9_Witness ==
    /\ pc = "loaded"
    /\ join_similar
    /\ Len(files) = 2
    /\ DOMAIN data = {Key(KSales)}
    /\ Len(data[Key(KSales)].rows) = 3

FilesWithKey(key) == {i \in DOMAIN files : KeyOfFile(i) = key}

Max(S) == CHOOSE x \in S : \A y \in S : y <= x

\* the rows of the files of the list deriving key, in list order
RECURSIVE RowsInListOrder(_, _)
RowsInListOrder(key, n) ==
    IF n = 0 THEN <<>>
    ELSE RowsInListOrder(key, n - 1) \o
         (IF KeyOfFile(n) = key THEN TableOfFile(n).rows ELSE <<>>)

\* C10: the collection the loader returns is a function of the file list
\* alone, whatever the order in which the workers completed: in non-merge
\* mode the last file of the list deriving a key holds it, in merge mode a
\* key holds the rows of its files in list order.
C10_FanInDeterministic ==
    (pc = "loaded")
    => /\ DOMAIN data = {KeyOfFile(i) : i \in DOMAIN files}
       /\ \A key \in DOMAIN data :
            IF join_similar
            THEN data[key].rows = RowsInListOrder(key, Len(files))
            ELSE data[key] = TableOfFile(Max(FilesWithKey(key)))

C10_Witness ==
    /\ pc = "loaded"
    /\ ~join_similar
    /\ Len(files) = 2
    /\ KeyOfFile(1) = KeyOfFile(2)
    /\ doneOrder = <<2, 1>>
    /\ data[KeyOfFile(2)] = TableOfFile(2)
    /\ TableOfFile(1) # TableOfFile(2)

====
